---- MODULE Spec2Model ----
(***************************************************************************)
(* Model of main.py: parse_toggl_pdf, make_timekeep_block and the command  *)
(* line entry point of the Toggl-report to Timekeep converter.             *)
(*                                                                         *)
(* Text is modelled down to characters: a character is a one-character     *)
(* string (NL the line feed, NUL the null byte), and a str is a sequence   *)
(* of characters.  The white space of the explored inputs is the blank and *)
(* the line feed.  debug printing and the closing console summary change   *)
(* no state and are left out.                                              *)
(***************************************************************************)
EXTENDS Integers, Sequences, FiniteSets, TLC

\* Longest extracted text (lines, markers included) explored by Spec.
MaxItems == 4

\* Longest extracted text explored by SpecCli.
MaxCliItems == 2

----------------------------------------------------------------------------
\* Characters and fields

Digits == <<"0", "1", "2", "3", "4", "5", "6", "7", "8", "9">>

IsDigit(c) == \E i \in 1..10 : Digits[i] = c

\* int() of one decimal digit
DigitVal(c) == (CHOOSE i \in 1..10 : Digits[i] = c) - 1

AllDigits(f) == \A i \in 1..Len(f) : IsDigit(f[i])

\* int(s) for a string of decimal digits
RECURSIVE IntOf(_)
IntOf(f) ==
    IF Len(f) = 0 THEN 0
    ELSE 10 * IntOf(SubSeq(f, 1, Len(f) - 1)) + DigitVal(f[Len(f)])

\* needle in field
Contains(f, needle) ==
    \E i \in 0..(Len(f) - Len(needle)) : \A k \in 1..Len(needle) : f[i + k] = needle[k]

\* the pieces of f between occurrences of the character sep (str.split(sep))
RECURSIVE SplitFrom(_, _, _, _)
SplitFrom(f, sep, start, k) ==
    IF k > Len(f) THEN <<SubSeq(f, start, Len(f))>>
    ELSE IF f[k] = sep
         THEN <<SubSeq(f, start, k - 1)>> \o SplitFrom(f, sep, k + 1, k + 1)
    ELSE SplitFrom(f, sep, start, k + 1)

SplitOn(f, sep) == SplitFrom(f, sep, 1, 1)

----------------------------------------------------------------------------
\* datetime: naive, seconds and microseconds always zero in this program

IsLeap(y) == (y % 4 = 0 /\ y % 100 # 0) \/ y % 400 = 0

DaysInMonth(y, m) ==
    IF m = 2 THEN (IF IsLeap(y) THEN 29 ELSE 28)
    ELSE IF m \in {4, 6, 9, 11} THEN 30
    ELSE 31

ValidDate(y, m, d) ==
    /\ y \in 1..9999
    /\ m \in 1..12
    /\ d \in 1..DaysInMonth(y, m)

DateTime(y, m, d, h, mi) == [year |-> y, month |-> m, day |-> d, hour |-> h, minute |-> mi]

\* dt + timedelta(days=1)
AddDay(dt) ==
    IF dt.day < DaysInMonth(dt.year, dt.month) THEN [dt EXCEPT !.day = dt.day + 1]
    ELSE IF dt.month < 12 THEN [dt EXCEPT !.day = 1, !.month = dt.month + 1]
    ELSE [dt EXCEPT !.day = 1, !.month = 1, !.year = dt.year + 1]

\* dt + timedelta(minutes=1)
AddMinute(dt) ==
    IF dt.minute < 59 THEN [dt EXCEPT !.minute = dt.minute + 1]
    ELSE IF dt.hour < 23 THEN [dt EXCEPT !.minute = 0, !.hour = dt.hour + 1]
    ELSE AddDay([dt EXCEPT !.minute = 0, !.hour = 0])

DtKey(dt) == <<dt.year, dt.month, dt.day, dt.hour, dt.minute>>

RECURSIVE LexLess(_, _)
LexLess(a, b) ==
    /\ Len(a) > 0
    /\ \/ a[1] < b[1]
       \/ a[1] = b[1] /\ LexLess(Tail(a), Tail(b))

\* a < b on datetimes
DtLess(a, b) == LexLess(DtKey(a), DtKey(b))

\* current_date.replace(hour=h, minute=mi, second=0) is defined when this holds,
\* and raises ValueError otherwise
ValidTime(h, mi) == h \in 0..23 /\ mi \in 0..59

Replace(dt, h, mi) == [dt EXCEPT !.hour = h, !.minute = mi]

\* n as w decimal digits, zero padded
RECURSIVE Pad(_, _)
Pad(n, w) == IF w = 0 THEN <<>> ELSE Pad(n \div 10, w - 1) \o <<Digits[(n % 10) + 1]>>

\* dt.strftime("%Y-%m-%dT%H:%M:00.000Z")
IsoFormat(dt) ==
    Pad(dt.year, 4) \o <<"-">> \o Pad(dt.month, 2) \o <<"-">> \o Pad(dt.day, 2)
        \o <<"T">> \o Pad(dt.hour, 2) \o <<":">> \o Pad(dt.minute, 2)
        \o <<":", "0", "0", ".", "0", "0", "0", "Z">>

\* days from 0001-01-01 to the day of dt (date.toordinal() - 1)
RECURSIVE DaysBeforeMonth(_, _)
DaysBeforeMonth(y, m) == IF m = 1 THEN 0 ELSE DaysBeforeMonth(y, m - 1) + DaysInMonth(y, m - 1)

Ordinal(dt) ==
    LET y == dt.year - 1
    IN  365 * y + (y \div 4) - (y \div 100) + (y \div 400)
            + DaysBeforeMonth(dt.year, dt.month) + dt.day - 1

\* (b - a).total_seconds() / 60
MinutesBetween(a, b) ==
    (Ordinal(b) - Ordinal(a)) * 1440 + (b.hour - a.hour) * 60 + (b.minute - a.minute)

\* datetime.fromisoformat(s.replace("Z", "+00:00")) for s as IsoFormat writes it:
\* the fields are read back from their columns
FromIso(s) ==
    DateTime(IntOf(SubSeq(s, 1, 4)), IntOf(SubSeq(s, 6, 7)), IntOf(SubSeq(s, 9, 10)),
             IntOf(SubSeq(s, 12, 13)), IntOf(SubSeq(s, 15, 16)))

\* datetime.strptime(s, "%Y-%m-%d") succeeds; it raises ValueError otherwise
StrptimeOk(s) ==
    LET p == SplitOn(s, "-")
    IN  /\ Len(p) = 3
        /\ Len(p[1]) = 4 /\ AllDigits(p[1])
        /\ Len(p[2]) \in 1..2 /\ AllDigits(p[2])
        /\ Len(p[3]) \in 1..2 /\ AllDigits(p[3])
        /\ ValidDate(IntOf(p[1]), IntOf(p[2]), IntOf(p[3]))

\* datetime.strptime(s, "%Y-%m-%d"), midnight of the day s names
Strptime(s) ==
    LET p == SplitOn(s, "-")
    IN  DateTime(IntOf(p[1]), IntOf(p[2]), IntOf(p[3]), 0, 0)

----------------------------------------------------------------------------
\* str helpers

NL == "\n"

NUL == "NUL"

IsSpace(c) == c = " " \/ c = NL

StartsWith(t, i, w) ==
    /\ i >= 1
    /\ i + Len(w) - 1 <= Len(t)
    /\ \A k \in 1..Len(w) : t[i + k - 1] = w[k]

\* t.replace(c, "") for one character c
Remove(t, c) == SelectSeq(t, LAMBDA ch : ch # c)

\* t.replace(old, new)
RECURSIVE StrReplace(_, _, _)
StrReplace(t, old, new) ==
    IF Len(t) = 0 THEN <<>>
    ELSE IF StartsWith(t, 1, old)
         THEN new \o StrReplace(SubSeq(t, Len(old) + 1, Len(t)), old, new)
    ELSE <<t[1]>> \o StrReplace(Tail(t), old, new)

\* t.strip()
RECURSIVE Strip(_)
Strip(t) ==
    IF Len(t) = 0 THEN t
    ELSE IF IsSpace(t[1]) THEN Strip(Tail(t))
    ELSE IF IsSpace(t[Len(t)]) THEN Strip(SubSeq(t, 1, Len(t) - 1))
    ELSE t

\* first index >= i of t that holds no white space (Len(t) + 1 when there is none)
RECURSIVE SkipSpace(_, _)
SkipSpace(t, i) == IF i <= Len(t) /\ IsSpace(t[i]) THEN SkipSpace(t, i + 1) ELSE i

\* the maximal runs of t without white space, as [s |-> first, e |-> last] indices
\* first index >= i of t that holds white space (Len(t) + 1 when there is none)
RECURSIVE SkipField(_, _)
SkipField(t, i) == IF i <= Len(t) /\ ~IsSpace(t[i]) THEN SkipField(t, i + 1) ELSE i

RECURSIVE FieldsFrom(_, _)
FieldsFrom(t, i) ==
    LET s == SkipSpace(t, i)
    IN  IF s > Len(t) THEN <<>>
        ELSE LET e == SkipField(t, s) - 1
             IN  <<[s |-> s, e |-> e]>> \o FieldsFrom(t, e + 1)

Fields(t) == FieldsFrom(t, 1)

FieldText(t, f) == SubSeq(t, f.s, f.e)

----------------------------------------------------------------------------
\* The regular expressions

S_Alltime == <<"A", "l", "l", "t", "i", "m", "e">>

S_entries == <<"e", "n", "t", "r", "i", "e", "s">>

S_from == <<"f", "r", "o", "m">>

S_to == <<"t", "o">>

S_min == <<"m", "i", "n">>

S_sec == <<"s", "e", "c">>

S_DESCRIPTION == <<"D", "E", "S", "C", "R", "I", "P", "T", "I", "O", "N">>

S_TIME == <<"T", "I", "M", "E">>

\* r"Alltime\s*entries\s*from.*?to" matched at index i of t: the index of its last
\* character, 0 when it does not match there
MarkerEnd(t, i) ==
    IF ~StartsWith(t, i, S_Alltime) THEN 0
    ELSE LET b == SkipSpace(t, i + Len(S_Alltime))
         IN  IF ~StartsWith(t, b, S_entries) THEN 0
             ELSE LET c == SkipSpace(t, b + Len(S_entries))
                  IN  IF ~StartsWith(t, c, S_from) THEN 0
                      ELSE LET d == c + Len(S_from)
                               K == {k \in d..Len(t) :
                                        /\ StartsWith(t, k, S_to)
                                        /\ \A j \in d..(k - 1) : t[j] # NL}
                           IN  IF K = {} THEN 0
                               ELSE (CHOOSE k \in K : \A k2 \in K : k <= k2) + Len(S_to) - 1

\* re.split(r"Alltime\s*entries\s*from.*?to", t)
RECURSIVE ReSplit(_)
ReSplit(t) ==
    LET I == {i \in 1..Len(t) : MarkerEnd(t, i) > 0}
    IN  IF I = {} THEN <<t>>
        ELSE LET i == CHOOSE x \in I : \A y \in I : x <= y
                 e == MarkerEnd(t, i)
             IN  <<SubSeq(t, 1, i - 1)>> \o ReSplit(SubSeq(t, e + 1, Len(t)))

\* \d+:\d+:\d+
IsHMS(f) ==
    LET p == SplitOn(f, ":")
    IN  Len(p) = 3 /\ \A k \in 1..3 : Len(p[k]) > 0 /\ AllDigits(p[k])

\* \d+:\d+
IsMS(f) ==
    LET p == SplitOn(f, ":")
    IN  Len(p) = 2 /\ \A k \in 1..2 : Len(p[k]) > 0 /\ AllDigits(p[k])

IsNumber(f) == Len(f) > 0 /\ AllDigits(f)

\* the duration alternatives that take one field: \d{6} | \d+:\d+:\d+
Duration1(f) == (Len(f) = 6 /\ AllDigits(f)) \/ IsHMS(f)

\* the duration alternatives that take two fields:
\* \d+:\d+\s+min | \d+\s+min | \d+\s+sec
Duration2(f, g) ==
    \/ (IsMS(f) \/ IsNumber(f)) /\ g = S_min
    \/ IsNumber(f) /\ g = S_sec

\* \d{4}
IsTime4(f) == Len(f) = 4 /\ AllDigits(f)

\* The fields fs of the line after the first n are a duration, a start and an end,
\* and nothing else:  \s+ DURATION \s+ (\d{4}) \s+ (\d{4}) \s* $
TailMatches(line, fs, n) ==
    LET F(k) == FieldText(line, fs[n + k])
    IN  \/ Len(fs) = n + 3 /\ IsTime4(F(3)) /\ IsTime4(F(2)) /\ Duration1(F(1))
        \/ Len(fs) = n + 4 /\ IsTime4(F(4)) /\ IsTime4(F(3)) /\ Duration2(F(1), F(2))

\* The numbers n of leading fields group 1 may hold.  Group 1, (.+?), takes at
\* least one character and is followed by white space, so it holds no field
\* only when the line begins with two white-space characters.
NameFieldCounts(line) ==
    LET fs == Fields(line)
    IN  {n \in 0..Len(fs) :
            /\ (n = 0 => (Len(line) >= 2 /\ IsSpace(line[1]) /\ IsSpace(line[2])))
            /\ TailMatches(line, fs, n)}

\* re.search(...) / re.match(...) of lines 73-87 find a match (both patterns
\* match from the start of the line whenever either matches)
time_match(line) == NameFieldCounts(line) # {}

\* group 1 is non-greedy: the shortest prefix that lets the rest match
NameFields(line) ==
    LET N == NameFieldCounts(line) IN CHOOSE n \in N : \A m \in N : n <= m

\* task_match.group(1).strip()
task_name(line) ==
    LET n == NameFields(line)
    IN  IF n = 0 THEN <<>> ELSE Strip(SubSeq(line, 1, Fields(line)[n].e))

\* time_match.group(2), time_match.group(3)
start_time_str(line) == LET fs == Fields(line) IN FieldText(line, fs[Len(fs) - 1])

end_time_str(line) == LET fs == Fields(line) IN FieldText(line, fs[Len(fs)])

----------------------------------------------------------------------------
\* Inputs

\* Lines a report page may hold: the column header, three well-formed entries
\* (a plain one, one that runs past midnight and carries a stray null byte,
\* one that starts and ends in the same minute and whose name holds "TIME"),
\* an entry whose start is no time of day, and the section marker.
L_Header == <<"D", "E", "S", "C", "R", "I", "P", "T", "I", "O", "N">>

L_Task == <<"T", "a", "s", "k", " ", "0", ":", "3", "0", ":", "0", "0", " ", "0", "9", "0", "0", " ", "0", "9", "3", "0">>

L_Mail == <<"M", "a", "i", "l", NUL, " ", "5", " ", "m", "i", "n", " ", "2", "3", "5", "0", " ", "0", "0", "1", "0">>

L_Time == <<"T", "I", "M", "E", " ", "0", "0", "0", "0", "0", "5", " ", "2", "3", "5", "9", " ", "2", "3", "5", "9">>

L_Bad == <<"T", "a", "s", "k", " ", "0", ":", "3", "0", ":", "0", "0", " ", "2", "4", "6", "0", " ", "0", "9", "3", "0">>

L_Marker == <<"A", "l", "l", "t", "i", "m", "e", " ", "e", "n", "t", "r", "i", "e", "s", " ", "f", "r", "o", "m", " ", "t", "o">>

LinePool == {L_Header, L_Task, L_Mail, L_Time, L_Bad, L_Marker}

\* the page texts of exactly k lines
RECURSIVE PageTextsOfLen(_)
PageTextsOfLen(k) ==
    IF k = 1 THEN LinePool
    ELSE {t \o <<NL>> \o l : t \in PageTextsOfLen(k - 1), l \in LinePool}

\* the documents of one page of at most n lines, and the document without text
Documents(n) == {<<>>} \cup UNION {{<<t>> : t \in PageTextsOfLen(k)} : k \in 1..n}

D_Feb28 == <<"2", "0", "2", "4", "-", "0", "2", "-", "2", "8">>

D_Dec31 == <<"2", "0", "2", "3", "-", "1", "2", "-", "3", "1">>

D_Month13 == <<"2", "0", "2", "4", "-", "1", "3", "-", "4", "5">>

D_Empty == <<>>

ValidStartDates == {D_Feb28, D_Dec31}

----------------------------------------------------------------------------
\* State

VARIABLES
    disk,             \* what pdf_path names: [kind, pages]
    start_date_str,   \* parse_toggl_pdf's argument
    pc,               \* position in the program
    exc,              \* the exception that ended the call, "none" while there is none
    current_date,
    full_text,
    sections,
    section_idx,      \* sections already taken by the for loop of line 55
    section_num,
    lines,
    i,                \* lines already taken by the for loop of line 70
    section_entries,
    unique_entries,
    entries,
    block,            \* make_timekeep_block's result, once computed
    run_as,           \* __name__: "__main__" when run as a script, "import" when imported
    argv,             \* the command line: pdf, --start-date, --output, each optional
    stdin,            \* what input() will read: a line, or end of file
    args,             \* the argparse namespace
    fs,               \* the files written so far, by name
    exit_code         \* the interpreter's exit status, "running" until it ends

parse_vars ==
    <<start_date_str, pc, exc, current_date, full_text, sections, section_idx,
      section_num, lines, i, section_entries, unique_entries, entries>>

cli_vars == <<run_as, argv, stdin, args, fs, exit_code>>

vars == <<disk, parse_vars, block, cli_vars>>

None == "None"

\* an optional str: a command-line option that may be left out, a line that
\* may not come
Absent == [given |-> FALSE, v |-> <<>>]

Some(v) == [given |-> TRUE, v |-> v]

NoArgv == [pdf |-> Absent, start_date |-> Absent, output |-> Absent]

NoArgs == [pdf |-> <<>>, start_date |-> Absent, output |-> Absent]

NoFiles == <<>>

Pdf(d) == [kind |-> "pdf", pages |-> d, members |-> <<>>]

NotPdf(kind) == [kind |-> kind, pages |-> <<>>, members |-> <<>>]

Folder(ms) == [kind |-> "folder", pages |-> <<>>, members |-> ms]

NoDate == DateTime(0, 0, 0, 0, 0)

\* page.extract_text() of every page, each followed by a line feed (lines 25-29)
RECURSIVE ExtractAll(_)
ExtractAll(pages) ==
    IF Len(pages) = 0 THEN <<>>
    ELSE (IF Len(pages[1]) > 0 THEN pages[1] \o <<NL>> ELSE <<>>) \o ExtractAll(Tail(pages))

OpenErrorNone(kind) == "none"

\* pdfplumber.open(pdf_path) on each kind of path: the exception it raises
OpenError(kind) ==
    CASE kind = "missing" -> "FileNotFoundError"
      [] kind = "folder" -> "IsADirectoryError"
      [] kind = "notpdf" -> "PDFSyntaxError"
      [] OTHER -> "none"

\* not section.strip()
IsBlank(section) == Len(Strip(section)) = 0

\* the negation of line 63's skip test
HasHeader(section) == Contains(section, S_DESCRIPTION) \/ Contains(section, S_TIME)

start_hour(line) == IntOf(SubSeq(start_time_str(line), 1, 2))

start_min(line) == IntOf(SubSeq(start_time_str(line), 3, 4))

end_hour(line) == IntOf(SubSeq(end_time_str(line), 1, 2))

end_min(line) == IntOf(SubSeq(end_time_str(line), 3, 4))

start_dt(line, date) == Replace(date, start_hour(line), start_min(line))

end_dt_same_day(line, date) ==
    LET s == start_dt(line, date)
        e0 == Replace(date, end_hour(line), end_min(line))
    IN  IF e0 = s THEN AddMinute(e0) ELSE e0

\* lines 102-112: the end on the current date, moved to the next day when it
\* is before the start, and by a minute when it equals the start
end_dt(line, date) ==
    LET s == start_dt(line, date)
        e0 == Replace(date, end_hour(line), end_min(line))
        e1 == IF DtLess(e0, s) THEN AddDay(e0) ELSE e0
    IN  IF e1 = s THEN AddMinute(e1) ELSE e1

RECURSIVE DedupeKeepsLast(_, _)
DedupeKeepsLast(rest, seen) ==
    IF Len(rest) = 0 THEN <<>>
    ELSE IF \E k \in 2..Len(rest) : rest[k] = Head(rest)
         THEN DedupeKeepsLast(Tail(rest), seen)
    ELSE <<Head(rest)>> \o DedupeKeepsLast(Tail(rest), seen)

\* lines 124-134
RECURSIVE Dedupe(_, _)
Dedupe(rest, seen) ==
    IF Len(rest) = 0 THEN <<>>
    ELSE IF Head(rest) \in seen THEN Dedupe(Tail(rest), seen)
    ELSE <<Head(rest)>> \o Dedupe(Tail(rest), seen \cup {Head(rest)})

\* lines 143-153
Record(e) ==
    [name |-> e[1], startTime |-> IsoFormat(e[2]), endTime |-> IsoFormat(e[3]),
     subEntries |-> None]

Records(es) == [k \in 1..Len(es) |-> Record(es[k])]

EntriesPrepended(result, unique) == Records(unique) \o result

\* lines 136-153: the section's records go to the end of the result
EntriesAfterSection(result, unique) == result \o Records(unique)

DateAlwaysAdvanced(date, es) == AddDay(date)

DateKept(date, es) == date

\* lines 119 and 156: the day moves on after a section that gave entries
DateAfterSection(date, es) == IF Len(es) > 0 THEN AddDay(date) ELSE date

----------------------------------------------------------------------------
\* parse_toggl_pdf

\* lines 20-54: parse the start date, read the document, split it
Begin ==
    /\ pc = "call"
    /\ IF ~StrptimeOk(start_date_str)
       THEN /\ pc' = "raised"
            /\ exc' = "ValueError"
            /\ UNCHANGED <<current_date, full_text, sections>>
       ELSE IF OpenError(disk.kind) # "none"
       THEN /\ pc' = "raised"
            /\ exc' = OpenError(disk.kind)
            /\ current_date' = Strptime(start_date_str)
            /\ UNCHANGED <<full_text, sections>>
       ELSE /\ pc' = "for_section"
            /\ current_date' = Strptime(start_date_str)
            /\ full_text' = Remove(ExtractAll(disk.pages), NUL)
            /\ sections' = ReSplit(full_text')
            /\ exc' = exc
    /\ entries' = <<>>
    /\ section_num' = 0
    /\ UNCHANGED <<disk, start_date_str, section_idx, lines, i, section_entries,
                   unique_entries, block, cli_vars>>

\* lines 55-57: a blank section is passed over
SkipBlank ==
    /\ pc = "for_section"
    /\ section_idx < Len(sections)
    /\ IsBlank(sections[section_idx + 1])
    /\ section_idx' = section_idx + 1
    /\ UNCHANGED <<disk, start_date_str, pc, exc, current_date, full_text, sections,
                   section_num, lines, i, section_entries, unique_entries, entries, block, cli_vars>>

\* lines 59-66: a section with neither header word is counted and passed over
SkipNoHeader ==
    /\ pc = "for_section"
    /\ section_idx < Len(sections)
    /\ ~IsBlank(sections[section_idx + 1])
    /\ ~HasHeader(sections[section_idx + 1])
    /\ section_idx' = section_idx + 1
    /\ section_num' = section_num + 1
    /\ section_entries' = <<>>
    /\ UNCHANGED <<disk, start_date_str, pc, exc, current_date, full_text, sections,
                   lines, i, unique_entries, entries, block, cli_vars>>

\* lines 59-70: a data section is entered
EnterSection ==
    /\ pc = "for_section"
    /\ section_idx < Len(sections)
    /\ ~IsBlank(sections[section_idx + 1])
    /\ HasHeader(sections[section_idx + 1])
    /\ section_idx' = section_idx + 1
    /\ section_num' = section_num + 1
    /\ section_entries' = <<>>
    /\ lines' = SplitOn(sections[section_idx + 1], NL)
    /\ i' = 0
    /\ pc' = "for_line"
    /\ UNCHANGED <<disk, start_date_str, exc, current_date, full_text, sections,
                   unique_entries, entries, block, cli_vars>>

\* lines 70-80: a line the pattern does not match
LineNoMatch ==
    /\ pc = "for_line"
    /\ i < Len(lines)
    /\ ~time_match(lines[i + 1])
    /\ i' = i + 1
    /\ UNCHANGED <<disk, start_date_str, pc, exc, current_date, full_text, sections,
                   section_idx, section_num, lines, section_entries, unique_entries,
                   entries, block, cli_vars>>

\* the time of day of a datetime, in minutes
TimeOfDay(dt) == dt.hour * 60 + dt.minute

LineEntryRollsOver ==
    /\ pc = "for_line"
    /\ i < Len(lines)
    /\ time_match(lines[i + 1])
    /\ LET line == lines[i + 1]
           prev == section_entries[Len(section_entries)]
           date == IF /\ Len(section_entries) > 0
                      /\ start_hour(line) * 60 + start_min(line) < TimeOfDay(prev[3])
                   THEN AddDay(current_date) ELSE current_date
       IN  /\ ValidTime(start_hour(line), start_min(line))
           /\ ValidTime(end_hour(line), end_min(line))
           /\ current_date' = date
           /\ section_entries' =
                  Append(section_entries,
                         <<task_name(line), start_dt(line, date), end_dt(line, date)>>)
    /\ i' = i + 1
    /\ UNCHANGED <<disk, start_date_str, pc, exc, full_text, sections,
                   section_idx, section_num, lines, unique_entries, entries, block, cli_vars>>

\* lines 80-116: a line the pattern matches, with times of day
LineEntry ==
    /\ pc = "for_line"
    /\ i < Len(lines)
    /\ time_match(lines[i + 1])
    /\ LET line == lines[i + 1]
       IN  /\ ValidTime(start_hour(line), start_min(line))
           /\ ValidTime(end_hour(line), end_min(line))
           /\ section_entries' =
                  Append(section_entries,
                         <<task_name(line), start_dt(line, current_date),
                           end_dt(line, current_date)>>)
    /\ i' = i + 1
    /\ UNCHANGED <<disk, start_date_str, pc, exc, current_date, full_text, sections,
                   section_idx, section_num, lines, unique_entries, entries, block, cli_vars>>

\* lines 99-104: datetime.replace raises ValueError for an hour above 23 or a
\* minute above 59, and nothing catches it
LineRaises ==
    /\ pc = "for_line"
    /\ i < Len(lines)
    /\ time_match(lines[i + 1])
    /\ LET line == lines[i + 1]
       IN  \/ ~ValidTime(start_hour(line), start_min(line))
           \/ ~ValidTime(end_hour(line), end_min(line))
    /\ pc' = "raised"
    /\ exc' = "ValueError"
    /\ UNCHANGED <<disk, start_date_str, current_date, full_text, sections, section_idx,
                   section_num, lines, i, section_entries, unique_entries, entries, block, cli_vars>>

\* lines 118-158: the section's entries, without duplicates, are added to the
\* result and the current date moves to the next day; a section without
\* entries changes nothing
EndSection ==
    /\ pc = "for_line"
    /\ i = Len(lines)
    /\ pc' = "for_section"
    /\ IF Len(section_entries) > 0
       THEN /\ unique_entries' = Dedupe(section_entries, {})
            /\ entries' = EntriesAfterSection(entries, unique_entries')
       ELSE UNCHANGED <<unique_entries, entries>>
    /\ current_date' = DateAfterSection(current_date, section_entries)
    /\ UNCHANGED <<disk, start_date_str, exc, full_text, sections, section_idx,
                   section_num, lines, i, section_entries, block, cli_vars>>

\* line 160
Return ==
    /\ pc = "for_section"
    /\ section_idx = Len(sections)
    /\ pc' = "returned"
    /\ UNCHANGED <<disk, start_date_str, exc, current_date, full_text, sections,
                   section_idx, section_num, lines, i, section_entries, unique_entries,
                   entries, block, cli_vars>>

----------------------------------------------------------------------------
\* make_timekeep_block

\* json.dumps(data, ...): the document, with the layout it is written in
JsonDumps(data, layout) == [json |-> data, layout |-> layout]

\* lines 167-169: the document between an opening fence tagged timekeep and a
\* closing fence
make_timekeep_block(es) ==
    [open |-> "fence timekeep", body |-> JsonDumps([entries |-> es], "compact"),
     close |-> "fence"]

NoBlock == [open |-> "", body |-> JsonDumps([entries |-> <<>>], ""), close |-> ""]

\* a program that imported the module turns the list parse_toggl_pdf returned
\* into a block (the script itself never calls make_timekeep_block)
MakeBlock ==
    /\ run_as = "import"
    /\ pc = "returned"
    /\ block = NoBlock
    /\ block' = make_timekeep_block(entries)
    /\ UNCHANGED <<disk, parse_vars, cli_vars>>

----------------------------------------------------------------------------
\* Spec: the library, called on a readable document with any start date string

Init ==
    /\ disk \in {Pdf(d) : d \in Documents(MaxItems)}
    /\ start_date_str \in ValidStartDates \cup {D_Month13}
    /\ pc = "call"
    /\ exc = "none"
    /\ current_date = NoDate
    /\ full_text = <<>>
    /\ sections = <<>>
    /\ section_idx = 0
    /\ section_num = 0
    /\ lines = <<>>
    /\ i = 0
    /\ section_entries = <<>>
    /\ unique_entries = <<>>
    /\ entries = <<>>
    /\ block = NoBlock
    /\ run_as = "import"
    /\ argv = NoArgv
    /\ stdin = Absent
    /\ args = NoArgs
    /\ fs = NoFiles
    /\ exit_code = "running"

Parse ==
    \/ Begin
    \/ SkipBlank
    \/ SkipNoHeader
    \/ EnterSection
    \/ LineNoMatch
    \/ LineEntry
    \/ LineRaises
    \/ EndSection
    \/ Return

Next == Parse \/ MakeBlock

Spec == Init /\ [][Next]_vars

----------------------------------------------------------------------------
\* The command line program (lines 172-252)

P_Dated == <<"f", "r", "o", "m", "_", "2", "0", "2", "4", "_", "0", "2", "_", "2", "8", ".", "p", "d", "f">>

P_Month13 == <<"f", "r", "o", "m", "_", "2", "0", "2", "4", "_", "1", "3", "_", "4", "5", ".", "p", "d", "f">>

P_Plain == <<"r", ".", "p", "d", "f">>

P_Csv == <<"r", ".", "c", "s", "v">>

P_Folder == <<"i", "n">>

P_A == <<"a", ".", "p", "d", "f">>

P_B == <<"b", ".", "c", "s", "v">>

O_Out == <<"o", "u", "t">>

S_from_ == <<"f", "r", "o", "m", "_">>

S_json == <<".", "j", "s", "o", "n">>

S_readable == <<"_", "r", "e", "a", "d", "a", "b", "l", "e", ".", "t", "x", "t">>

\* re.search(r"from_(\d{4})_(\d{2})_(\d{2})", p): the indices it matches at
DateMatches(p) ==
    {k \in 1..Len(p) :
        /\ StartsWith(p, k, S_from_)
        /\ k + 14 <= Len(p)
        /\ AllDigits(SubSeq(p, k + 5, k + 8))
        /\ p[k + 9] = "_"
        /\ AllDigits(SubSeq(p, k + 10, k + 11))
        /\ p[k + 12] = "_"
        /\ AllDigits(SubSeq(p, k + 13, k + 14))}

\* lines 199-201: f"{group(1)}-{group(2)}-{group(3)}" of the leftmost match
DateFromName(p) ==
    LET k == CHOOSE a \in DateMatches(p) : \A b \in DateMatches(p) : a <= b
    IN  SubSeq(p, k + 5, k + 8) \o <<"-">> \o SubSeq(p, k + 10, k + 11)
            \o <<"-">> \o SubSeq(p, k + 13, k + 14)

\* the last index of c in p, 0 when there is none
LastIndex(p, c) ==
    LET K == {k \in 1..Len(p) : p[k] = c}
    IN  IF K = {} THEN 0 ELSE CHOOSE k \in K : \A j \in K : j <= k

\* Path(p).stem: the last component without its last suffix
Stem(p) ==
    LET name == SubSeq(p, LastIndex(p, "/") + 1, Len(p))
        dot == LastIndex(name, ".")
    IN  IF dot > 1 /\ dot < Len(name) THEN SubSeq(name, 1, dot - 1) ELSE name

JsonFile(data) == [kind |-> "json", json |-> JsonDumps(data, "indent 2"), text |-> <<>>]

\* lines 220-228: the header and one row for each entry
ReadableRow(k, entry) ==
    LET start == FromIso(entry.startTime)
        end == FromIso(entry.endTime)
    IN  [n |-> k, start |-> start, end |-> <<end.hour, end.minute>>, name |-> entry.name,
         duration_min |-> MinutesBetween(start, end)]

ReadableFile(es, start_date) ==
    [kind |-> "text", json |-> JsonDumps([entries |-> <<>>], ""),
     text |-> <<[total |-> Len(es), start_date |-> start_date]>>
                  \o [k \in 1..Len(es) |-> ReadableRow(k, es[k])]]

\* open(name, "w") ... : the file is created or replaced
WriteFile(files, name, content) ==
    [n \in DOMAIN files \cup {name} |-> IF n = name THEN content ELSE files[n]]

\* lines 172-193: argparse; without the positional argument it prints the
\* usage and ends the program with status 2
ParseArgs ==
    /\ run_as = "__main__"
    /\ pc = "main"
    /\ IF argv.pdf.given
       THEN /\ args' = [pdf |-> argv.pdf.v, start_date |-> argv.start_date,
                        output |-> argv.output]
            /\ pc' = "parsed"
            /\ UNCHANGED exit_code
       ELSE /\ pc' = "exit"
            /\ exit_code' = 2
            /\ UNCHANGED args
    /\ UNCHANGED <<disk, start_date_str, exc, current_date, full_text, sections,
                   section_idx, section_num, lines, i, section_entries, unique_entries,
                   entries, block, run_as, argv, stdin, fs>>

\* lines 195-201: without --start-date, the date in the file name is taken
DateFromFileName ==
    /\ pc = "parsed"
    /\ ~args.start_date.given
    /\ DateMatches(args.pdf) # {}
    /\ args' = [args EXCEPT !.start_date = Some(DateFromName(args.pdf))]
    /\ pc' = "dated"
    /\ UNCHANGED <<disk, start_date_str, exc, current_date, full_text, sections,
                   section_idx, section_num, lines, i, section_entries, unique_entries,
                   entries, block, run_as, argv, stdin, fs, exit_code>>

D_Default == <<"2", "0", "2", "4", "-", "1", "1", "-", "0", "5">>

DatePromptDefaults ==
    /\ pc = "parsed"
    /\ ~args.start_date.given
    /\ DateMatches(args.pdf) = {}
    /\ args' = [args EXCEPT !.start_date = IF stdin.given THEN Some(stdin.v)
                                           ELSE Some(D_Default)]
    /\ pc' = "dated"
    /\ UNCHANGED <<disk, start_date_str, exc, current_date, full_text, sections,
                   section_idx, section_num, lines, i, section_entries, unique_entries,
                   entries, block, run_as, argv, stdin, fs, exit_code>>

\* lines 202-203: otherwise the date is asked for; input() raises EOFError
\* when standard input is at its end
DatePrompt ==
    /\ pc = "parsed"
    /\ ~args.start_date.given
    /\ DateMatches(args.pdf) = {}
    /\ IF stdin.given
       THEN /\ args' = [args EXCEPT !.start_date = Some(stdin.v)]
            /\ pc' = "dated"
            /\ UNCHANGED exc
       ELSE /\ pc' = "raised"
            /\ exc' = "EOFError"
            /\ UNCHANGED args
    /\ UNCHANGED <<disk, start_date_str, current_date, full_text, sections,
                   section_idx, section_num, lines, i, section_entries, unique_entries,
                   entries, block, run_as, argv, stdin, fs, exit_code>>

\* line 196: --start-date was given
DateGiven ==
    /\ pc = "parsed"
    /\ args.start_date.given
    /\ pc' = "dated"
    /\ UNCHANGED <<disk, start_date_str, exc, current_date, full_text, sections,
                   section_idx, section_num, lines, i, section_entries, unique_entries,
                   entries, block, cli_vars>>

\* lines 205-210: the output name defaults to the stem of the input with
\* ".json"; parse_toggl_pdf is called
Call ==
    /\ pc = "dated"
    /\ args' = [args EXCEPT !.output =
                    IF args.output.given THEN args.output
                    ELSE Some(Stem(args.pdf) \o S_json)]
    /\ start_date_str' = args.start_date.v
    /\ pc' = "call"
    /\ UNCHANGED <<disk, exc, current_date, full_text, sections,
                   section_idx, section_num, lines, i, section_entries, unique_entries,
                   entries, block, run_as, argv, stdin, fs, exit_code>>

\* lines 212-215
WriteJson ==
    /\ run_as = "__main__"
    /\ pc = "returned"
    /\ fs' = WriteFile(fs, args.output.v, JsonFile([entries |-> entries]))
    /\ pc' = "json_written"
    /\ UNCHANGED <<disk, start_date_str, exc, current_date, full_text, sections,
                   section_idx, section_num, lines, i, section_entries, unique_entries,
                   entries, block, run_as, argv, stdin, args, exit_code>>

\* lines 217-252: the readable list is written, the summary printed and the
\* program ends with status 0
WriteReadable ==
    /\ pc = "json_written"
    /\ fs' = WriteFile(fs, StrReplace(args.output.v, S_json, S_readable),
                       ReadableFile(entries, args.start_date.v))
    /\ pc' = "exit"
    /\ exit_code' = 0
    /\ UNCHANGED <<disk, start_date_str, exc, current_date, full_text, sections,
                   section_idx, section_num, lines, i, section_entries, unique_entries,
                   entries, block, run_as, argv, stdin, args>>

\* an exception nothing catches: the traceback is printed and the interpreter
\* ends with status 1
Uncaught ==
    /\ run_as = "__main__"
    /\ pc = "raised"
    /\ pc' = "exit"
    /\ exit_code' = 1
    /\ UNCHANGED <<disk, start_date_str, exc, current_date, full_text, sections,
                   section_idx, section_num, lines, i, section_entries, unique_entries,
                   entries, block, run_as, argv, stdin, args, fs>>

\* What the path argument may name: a report with the date in its name, one
\* whose name holds no calendar date, a report with no date in its name, a
\* path that does not exist, a file that is no PDF, and a folder of files.
CliInputs ==
    {[pdf |-> Some(P_Dated), disk |-> Pdf(d)] : d \in Documents(MaxCliItems)}
        \cup {[pdf |-> Some(P_Plain), disk |-> Pdf(d)] : d \in Documents(MaxCliItems)}
        \cup {[pdf |-> Some(P_Month13), disk |-> Pdf(<<L_Time>>)],
              [pdf |-> Some(P_Plain), disk |-> NotPdf("missing")],
              [pdf |-> Some(P_Csv), disk |-> NotPdf("notpdf")],
              [pdf |-> Some(P_Folder),
               disk |-> Folder(<<[name |-> P_A, kind |-> "pdf"],
                                 [name |-> P_B, kind |-> "notpdf"]>>)],
              [pdf |-> Absent, disk |-> NotPdf("missing")]}

InitCli ==
    /\ \E in \in CliInputs :
          /\ disk = in.disk
          /\ \E d \in {Absent, Some(D_Feb28), Some(D_Month13)},
                o \in {Absent, Some(O_Out)} :
                argv = [pdf |-> in.pdf, start_date |-> d, output |-> o]
    /\ stdin \in {Absent, Some(D_Dec31), Some(D_Empty)}
    /\ run_as = "__main__"
    /\ args = NoArgs
    /\ fs = NoFiles
    /\ exit_code = "running"
    /\ start_date_str = <<>>
    /\ pc = "main"
    /\ exc = "none"
    /\ current_date = NoDate
    /\ full_text = <<>>
    /\ sections = <<>>
    /\ section_idx = 0
    /\ section_num = 0
    /\ lines = <<>>
    /\ i = 0
    /\ section_entries = <<>>
    /\ unique_entries = <<>>
    /\ entries = <<>>
    /\ block = NoBlock

Main ==
    \/ ParseArgs
    \/ DateFromFileName
    \/ DatePrompt
    \/ DateGiven
    \/ Call
    \/ WriteJson
    \/ WriteReadable
    \/ Uncaught

NextCli == Main \/ Parse

SpecCli == InitCli /\ [][NextCli]_vars

\* SpecAll: both uses of the module
InitAll == Init \/ InitCli

NextAll == Main \/ Parse \/ MakeBlock

SpecAll == InitAll /\ [][NextAll]_vars

----------------------------------------------------------------------------
\* Properties

DateOf(dt) == <<dt.year, dt.month, dt.day>>

RECURSIVE AddDays(_, _)
AddDays(dt, n) == IF n = 0 THEN dt ELSE AddDays(AddDay(dt), n - 1)

Last(q) == q[Len(q)]

\* the records the section that ended last added to the result
Emitted == SubSeq(entries, Len(entries) - Len(unique_entries) + 1, Len(entries))

\* the call is between sections, or has returned, and the section that gave
\* entries last is the one section_entries and unique_entries are of
SectionDone == pc \in {"for_section", "returned"} /\ Len(section_entries) > 0

\* C1: every entry of the result ends strictly after it starts, read back from
\* its two timestamps.
C1_EndAfterStart ==
    \A k \in 1..Len(entries) :
        DtLess(FromIso(entries[k].startTime), FromIso(entries[k].endTime))

\* C1 witness: a returned result holds an entry whose end time of day is not
\* after its start time of day.
C1_Witness ==
    /\ pc = "returned"
    /\ \E k \in 1..Len(entries) :
          TimeOfDay(FromIso(entries[k].endTime)) < TimeOfDay(FromIso(entries[k].startTime))
    /\ \E k \in 1..Len(entries) :
          /\ TimeOfDay(FromIso(entries[k].startTime)) = 23 * 60 + 59
          /\ TimeOfDay(FromIso(entries[k].endTime)) = 0

\* the line about to be scanned gives an entry that starts, by the clock,
\* before the entry parsed last in its section ended
StartsBeforePriorEnd ==
    /\ pc = "for_line"
    /\ i < Len(lines)
    /\ time_match(lines[i + 1])
    /\ Len(section_entries) > 0
    /\ start_hour(lines[i + 1]) * 60 + start_min(lines[i + 1])
           < TimeOfDay(Last(section_entries)[3])

\* a section that gave entries is at its end
SectionWithEntriesEnds ==
    /\ pc = "for_line"
    /\ i = Len(lines)
    /\ Len(section_entries) > 0

\* C2 as stated: while entries are parsed, the current date is advanced exactly
\* in the steps that take an entry whose start time of day is earlier than the
\* previous entry's end time.
C2_Original ==
    [][pc # "call" => (current_date' # current_date <=> StartsBeforePriorEnd)]_vars

\* C2 as amended: the current date moves, by one day, exactly in the steps that
\* end a section with entries; an entry that starts before the previous one
\* ended is put on the current date like any other.
C2_DateMovesAtSectionEnd ==
    [][pc # "call" =>
          /\ current_date' # current_date <=> SectionWithEntriesEnds
          /\ current_date' # current_date => current_date' = AddDay(current_date)
          /\ Len(section_entries') > Len(section_entries) =>
                 DateOf(Last(section_entries')[2]) = DateOf(current_date)]_vars

\* C2 witness: a section holds an entry that starts before the one before it
\* ended, both on the same date, and the date has moved on after the section.
C2_Witness ==
    /\ pc = "for_section"
    /\ Len(section_entries) >= 2
    /\ TimeOfDay(section_entries[2][2]) < TimeOfDay(section_entries[1][3])
    /\ DateOf(section_entries[2][2]) = DateOf(section_entries[1][2])
    /\ current_date = AddDay(Strptime(start_date_str))

\* the first place of record r among the section's parsed entries
FirstPlace(r) ==
    CHOOSE j \in 1..Len(section_entries) :
        /\ Record(section_entries[j]) = r
        /\ \A h \in 1..(j - 1) : Record(section_entries[h]) # r

\* C3: of the records a section added to the result no two are the same, every
\* entry parsed from the section is among them exactly once and nothing else
\* is, and they stand in the order of their first occurrences in the section.
C3_DuplicatesRemovedPerSection ==
    SectionDone =>
        /\ Len(unique_entries) <= Len(entries)
        /\ \A a, b \in 1..Len(Emitted) : a # b => Emitted[a] # Emitted[b]
        /\ \A j \in 1..Len(section_entries) :
              Cardinality({k \in 1..Len(Emitted) :
                              Emitted[k] = Record(section_entries[j])}) = 1
        /\ \A k \in 1..Len(Emitted) :
              \E j \in 1..Len(section_entries) : Emitted[k] = Record(section_entries[j])
        /\ \A a, b \in 1..Len(Emitted) :
              a < b => FirstPlace(Emitted[a]) < FirstPlace(Emitted[b])

\* C3 witness: a section whose first entry came again after another one has
\* ended, and fewer records were added than entries were parsed.
C3_Witness ==
    /\ SectionDone
    /\ Len(section_entries) = 3
    /\ section_entries[3] = section_entries[1]
    /\ section_entries[2] # section_entries[1]
    /\ Len(Emitted) = 2

\* the line gives no entry: the pattern does not match it, or one of its two
\* times is no time of day
Malformed(line) ==
    \/ ~time_match(line)
    \/ ~ValidTime(start_hour(line), start_min(line))
    \/ ~ValidTime(end_hour(line), end_min(line))

\* C4 as stated: the step that takes a malformed line only moves on to the next
\* line; it raises nothing and leaves the parsed entries and the current date
\* as they were.
C4_MalformedLinesSkipped ==
    [][(pc = "for_line" /\ i < Len(lines) /\ Malformed(lines[i + 1])) =>
          /\ pc' = "for_line"
          /\ exc' = "none"
          /\ i' = i + 1
          /\ UNCHANGED <<section_entries, entries, current_date>>]_vars

\* a section gives entries: it is not blank, holds a header word, and the
\* pattern matches one of its lines
HasEntryLine(section) ==
    LET ls == SplitOn(section, NL) IN \E k \in 1..Len(ls) : time_match(ls[k])

Yields(section) ==
    /\ ~IsBlank(section)
    /\ HasHeader(section)
    /\ HasEntryLine(section)

\* how many of the first n sections give entries
YieldCount(n) == Cardinality({k \in 1..n : Yields(sections[k])})

\* the sections the loop is done with
SectionsDone == IF pc = "for_line" THEN section_idx - 1 ELSE section_idx

\* C9: the current date is the start date plus one day for each section done
\* that gave entries, whatever other sections came between, and the records a
\* section added all start on the start date plus the number of entry-giving
\* sections before it.
C9_DateCountsYieldingSections ==
    pc \in {"for_section", "for_line", "returned"} =>
        /\ current_date = AddDays(Strptime(start_date_str), YieldCount(SectionsDone))
        /\ (pc # "for_line" /\ section_idx > 0 /\ Yields(sections[section_idx])) =>
              \A k \in 1..Len(Emitted) :
                  DateOf(FromIso(Emitted[k].startTime))
                      = DateOf(AddDays(Strptime(start_date_str),
                                       YieldCount(section_idx) - 1))

\* C9 witness: the second entry-giving section has ended, after a blank
\* section, a section without header word or a section with a header and no
\* entry.
C9_Witness ==
    /\ pc = "for_section"
    /\ section_idx >= 3
    /\ Yields(sections[section_idx])
    /\ YieldCount(section_idx) = 2
    /\ Len(Emitted) > 0

\* C10: no two records of the result have the same name, start and end.
C10_NoDuplicateRecords ==
    \A a, b \in 1..Len(entries) :
        a # b =>
            <<entries[a].name, entries[a].startTime, entries[a].endTime>>
                # <<entries[b].name, entries[b].startTime, entries[b].endTime>>

\* C10 witness: the result holds two records of the same name and the same
\* times of day, from the same line in two sections.
C10_Witness ==
    /\ pc = "returned"
    /\ \E a, b \in 1..Len(entries) :
          /\ a < b
          /\ entries[a].name = entries[b].name
          /\ SubSeq(entries[a].startTime, 11, 24) = SubSeq(entries[b].startTime, 11, 24)
          /\ SubSeq(entries[a].endTime, 11, 24) = SubSeq(entries[b].endTime, 11, 24)

\* a file of that name has been written
Written(name) == \E n \in DOMAIN fs : n = name

\* HH:MM as the timestamps carry it, from the HHMM of a line
Clock(hhmm) == <<hhmm[1], hhmm[2], ":", hhmm[3], hhmm[4]>>

DocLines == SplitOn(full_text, NL)

\* record k of the result is the record of line n of the text
FromLine(k, n) ==
    /\ time_match(DocLines[n])
    /\ entries[k].name = task_name(DocLines[n])
    /\ SubSeq(entries[k].startTime, 12, 16) = Clock(start_time_str(DocLines[n]))
    /\ (SubSeq(entries[k].endTime, 12, 16) = Clock(end_time_str(DocLines[n]))
        \/ start_time_str(DocLines[n]) = end_time_str(DocLines[n]))

\* the records from the k-th on come from lines of the text from the n-th on,
\* each from a later line than the one before
RECURSIVE InLineOrder(_, _)
InLineOrder(k, n) ==
    IF k > Len(entries) THEN TRUE
    ELSE IF n > Len(DocLines) THEN FALSE
    ELSE IF FromLine(k, n) THEN InLineOrder(k + 1, n + 1)
    ELSE InLineOrder(k, n + 1)

\* C5: every record has the four fields and a null subEntries; once the call
\* has returned, the records stand in the order of the lines they come from,
\* on dates that never go back; the block of make_timekeep_block and the file
\* the script writes hold one object whose only member, entries, is that list.
C5_OrderedRecordsWrapped ==
    /\ \A k \in 1..Len(entries) :
          /\ DOMAIN entries[k] = {"name", "startTime", "endTime", "subEntries"}
          /\ entries[k].subEntries = None
    /\ pc \in {"returned", "json_written"} =>
          /\ InLineOrder(1, 1)
          /\ \A k \in 1..(Len(entries) - 1) :
                ~LexLess(DateOf(FromIso(entries[k + 1].startTime)),
                         DateOf(FromIso(entries[k].startTime)))
    /\ block # NoBlock =>
          /\ block.open = "fence timekeep" /\ block.close = "fence"
          /\ DOMAIN block.body.json = {"entries"}
          /\ block.body.json.entries = entries
    /\ pc = "json_written" =>
          /\ Written(args.output.v)
          /\ fs[args.output.v].kind = "json"
          /\ DOMAIN fs[args.output.v].json.json = {"entries"}
          /\ fs[args.output.v].json.json.entries = entries

\* C5 witness: a block made of a result with records of two sections.
C5_Witness ==
    /\ block # NoBlock
    /\ Len(entries) >= 2
    /\ entries[1].name # entries[Len(entries)].name
    /\ DateOf(FromIso(entries[1].startTime)) # DateOf(FromIso(entries[Len(entries)].startTime))

\* the run was given a path, the name of the file holds no date, and no date
\* was supplied that strptime takes: neither by --start-date nor, without
\* that option, at the prompt
NoUsableDate ==
    /\ argv.pdf.given
    /\ DateMatches(argv.pdf.v) = {}
    /\ IF argv.start_date.given THEN ~StrptimeOk(argv.start_date.v)
       ELSE ~(stdin.given /\ StrptimeOk(stdin.v))

\* C6 as stated: a run without a usable date ends in a ValueError, with no
\* entries returned and no file written.
C6_Original ==
    (pc = "exit" /\ NoUsableDate) =>
        /\ exc = "ValueError"
        /\ entries = <<>>
        /\ fs = NoFiles

\* C6 as amended: a run without a usable date ends with status 1 in an error
\* nothing catches, a ValueError when a string that is no date was supplied
\* and an EOFError when the prompt finds standard input at its end, with no
\* entries returned and no file written.
C6_NoDateEndsInError ==
    (pc = "exit" /\ NoUsableDate) =>
        /\ exc = (IF ~argv.start_date.given /\ ~stdin.given THEN "EOFError"
                  ELSE "ValueError")
        /\ exit_code = 1
        /\ entries = <<>>
        /\ fs = NoFiles

\* C6 witness: the run asked for the date, was given a line that is no date
\* and has ended in the ValueError.
C6_Witness ==
    /\ pc = "exit"
    /\ NoUsableDate
    /\ ~argv.start_date.given
    /\ stdin.given
    /\ exc = "ValueError"
    /\ disk.kind = "pdf" /\ Len(disk.pages) > 0

\* no path was given, or the path names nothing, or a file that is no PDF
MissingOrInvalidInput == ~argv.pdf.given \/ disk.kind \in {"missing", "notpdf"}

\* C7 as stated: on missing or invalid input the run ends with status 1 and
\* no file written.
C7_Original ==
    (pc = "exit" /\ MissingOrInvalidInput) => (exit_code = 1 /\ fs = NoFiles)

\* C7 as amended: on missing or invalid input the run ends with a status other
\* than 0, 2 when no path was given and 1 otherwise, and no file written.
C7_InvalidInputExitsNonZero ==
    (pc = "exit" /\ MissingOrInvalidInput) =>
        /\ exit_code = (IF argv.pdf.given THEN 1 ELSE 2)
        /\ fs = NoFiles

\* C7 witness: a run on a path that names nothing, with a good start date,
\* has ended on the error of opening it.
C7_Witness ==
    /\ pc = "exit"
    /\ disk.kind = "missing"
    /\ exc = "FileNotFoundError"
    /\ exit_code = 1

\* C8 as stated: a run on a folder ends with the output of every file of the
\* folder that can be processed written.
C8_BatchGoesOn ==
    (pc = "exit" /\ disk.kind = "folder") =>
        \A k \in 1..Len(disk.members) :
            disk.members[k].kind = "pdf" => Written(Stem(disk.members[k].name) \o S_json)

====
